---- MODULE Spec2Model ----
(***************************************************************************)
(* Tensor-shape and value model of faimed3d's 3D EfficientNet building     *)
(* blocks (ConvLayerDynamicPadding, DropConnect, MBConvBlock,              *)
(* EfficientNet and its factories) and of DynamicDeepLab's hook wiring.    *)
(*                                                                         *)
(* A tensor is modelled by its shape: batch size b, channel count ch and   *)
(* spatial extent sz = <<D, H, W>>.  Framework primitives (Conv3d,         *)
(* ConstantPad3d, AdaptiveAvgPool3d, Linear) are modelled by their         *)
(* documented shape arithmetic; a primitive that would raise yields the    *)
(* tensor ErrT.                                                            *)
(***************************************************************************)
EXTENDS Integers, Sequences, FiniteSets, TLC

VARIABLES conv, dc, mb, net, lab

vars == <<conv, dc, mb, net, lab>>

\* ---------------------------------------------------------------- bounds
MaxDim == 2
MaxKs == 3
MaxStride == 2
MaxCh == 2
MaxBatch == 2

\* number of spatial axes of every layer of the repository (ndim=3)
ndim == 3

Dims == 1..MaxDim
Sizes == [1..ndim -> Dims]

\* ------------------------------------------------------------- tensors
ErrT == [ok |-> FALSE, b |-> 0, ch |-> 0, sz |-> <<0, 0, 0>>]
T(b, ch, sz) == [ok |-> TRUE, b |-> b, ch |-> ch, sz |-> sz]
NoT == [ok |-> FALSE, b |-> 0, ch |-> 0, sz |-> <<>>]

\* the element of a one-element set; `The({F(v) : v \in {e}})` evaluates e once
\* and names its value v
The(S) == CHOOSE v \in S : TRUE

Reverse(s) == [i \in 1..Len(s) |-> s[Len(s) + 1 - i]]

\* ceil(n / s) for n >= 0, s >= 1
CeilDiv(n, s) == (n + s - 1) \div s

\* ------------------------------------------- ConvLayerDynamicPadding
\* a kernel size given as an int or as a per-axis tuple
KsInt(k) == [int |-> TRUE, v |-> <<k>>]
KsTuple(t) == [int |-> FALSE, v |-> t]
KsArgs == {KsInt(k) : k \in 1..MaxKs} \cup {KsTuple(t) : t \in [1..ndim -> 1..MaxKs]}

calculate_padding_symmetric(ks) == <<ks \div 2, ks \div 2>>

calculate_padding(ks) ==
    IF ks % 2 = 0 THEN <<ks \div 2, (ks - 1) \div 2>>
    ELSE <<ks \div 2, ks \div 2>>

\* if isinstance(ks, int): ks = (ks, )*ndim
KsPerAxis(ks) == IF ks.int THEN [i \in 1..ndim |-> ks.v[1]] ELSE ks.v

\* padding = [pad for _ks in ks for pad in self.calculate_padding(_ks)]
PaddingList(kst) ==
    [j \in 1..(2 * Len(kst)) |-> calculate_padding(kst[(j + 1) \div 2])[2 - (j % 2)]]

\* nn.ConstantPad3d(p, 0.): p = (W_left, W_right, H_top, H_bottom, D_front, D_back)
ConstantPad3d(p, sz) ==
    <<sz[1] + p[5] + p[6], sz[2] + p[3] + p[4], sz[3] + p[1] + p[2]>>

\* nn.Conv3d with padding 0 and dilation 1: floor((n - k) / stride) + 1 per axis;
\* raises when the channel count differs, the channels are not divisible by
\* groups, or the kernel exceeds the input
Conv3d(layer, x) ==
    IF \/ ~x.ok
       \/ x.ch # layer.ni
       \/ layer.ni % layer.groups # 0
       \/ layer.nf % layer.groups # 0
       \/ \E i \in 1..ndim : x.sz[i] < layer.ks[i]
    THEN ErrT
    ELSE T(x.b, layer.nf,
           [i \in 1..ndim |-> ((x.sz[i] - layer.ks[i]) \div layer.stride) + 1])

Volume(sz) == sz[1] * sz[2] * sz[3]

\* the BatchNorm3d that ConvLayer appends for norm_type=NormType.Batch: in
\* training mode it raises for an input with a single value per channel
BatchNorm(layer, training, x) ==
    IF x.ok /\ layer.bn /\ training /\ x.b * Volume(x.sz) = 1 THEN ErrT ELSE x

PadUnreversed(padding) == padding

\* padding needs to be reverted, as the function expects format (W, W, H, H, D, D)
PadArgument(padding) == Reverse(padding)

\* ConvLayerDynamicPadding.__init__: the padding layer first, then ConvLayer with padding 0
\* (bn: norm_type is NormType.Batch, the default, rather than None)
ConvLayerDynamicPadding(ni, nf, ks, stride, groups, bn) ==
    LET kst == KsPerAxis(ks)
    IN  [ni |-> ni, nf |-> nf, ks |-> kst, stride |-> stride, groups |-> groups,
         bn |-> bn, pad |-> PadArgument(PaddingList(kst))]

\* nn.Sequential.forward of the layer: ConstantPad3d, the convolution, the norm
ConvForward(layer, training, x) ==
    IF ~x.ok THEN ErrT
    ELSE The({BatchNorm(layer, training, y) :
                 y \in {Conv3d(layer, padded) :
                    padded \in {T(x.b, x.ch, ConstantPad3d(layer.pad, x.sz))}}})

NoLayer == [ni |-> 0, nf |-> 0, ks |-> <<>>, stride |-> 0, groups |-> 0, bn |-> FALSE,
            pad |-> <<>>]

ConvIdle == [built |-> FALSE, layer |-> NoLayer, ksarg |-> KsInt(0), training |-> FALSE,
             x |-> NoT, out |-> NoT]

\* ConvLayerDynamicPadding(ni, nf, ks, stride, norm_type=...); nn.Module starts in
\* training mode
ConvConstruct ==
    /\ ~conv.built
    /\ \E ni \in 1..MaxCh, nf \in 1..MaxCh, ks \in KsArgs, stride \in 1..MaxStride,
          bn \in BOOLEAN :
         conv' = [ConvIdle EXCEPT !.built = TRUE, !.ksarg = ks, !.training = TRUE,
                     !.layer = ConvLayerDynamicPadding(ni, nf, ks, stride, 1, bn)]
    /\ UNCHANGED <<dc, mb, net, lab>>

\* layer.eval()
ConvEval ==
    /\ conv.built /\ ~conv.x.ok /\ conv.training
    /\ conv' = [conv EXCEPT !.training = FALSE]
    /\ UNCHANGED <<dc, mb, net, lab>>

\* layer(x) for an input of shape (b, ch, D, H, W); one call is recorded per layer
ConvCall ==
    /\ conv.built
    /\ ~conv.x.ok
    /\ \E b \in 1..MaxBatch, ch \in 1..MaxCh, sz \in Sizes :
         LET x == T(b, ch, sz)
         IN  conv' = [conv EXCEPT !.x = x, !.out = ConvForward(conv.layer, conv.training, x)]
    /\ UNCHANGED <<dc, mb, net, lab>>

\* ConvLayerDynamicPadding(ni=3, nf=64, ks=(2,7,5), ndim=3)(torch.randn(1, 3, 10, 10, 10)).size()
ConvTestCell ==
    /\ ~conv.built
    /\ LET ks == KsTuple(<<2, 7, 5>>)
           layer == ConvLayerDynamicPadding(3, 64, ks, 1, 1, TRUE)
           x == T(1, 3, <<10, 10, 10>>)
       IN  conv' = [built |-> TRUE, layer |-> layer, ksarg |-> ks, training |-> TRUE,
                    x |-> x, out |-> ConvForward(layer, TRUE, x)]
    /\ UNCHANGED <<dc, mb, net, lab>>

ConvNext == ConvConstruct \/ ConvEval \/ ConvCall \/ ConvTestCell

\* ------------------------------------------------------- float values
\* A tensor element is an IEEE value: a rational n/d in lowest terms, an
\* infinity of sign n, or NaN.  The sign of zero is not tracked.
RECURSIVE GCD(_, _)
GCD(a, b) == IF b = 0 THEN a ELSE GCD(b, a % b)

Abs(n) == IF n < 0 THEN -n ELSE n
Sign(n) == IF n < 0 THEN -1 ELSE IF n = 0 THEN 0 ELSE 1

Fin(n, d) == LET g == GCD(Abs(n), d)
             IN  [k |-> "fin", n |-> n \div g, d |-> d \div g]
Inf(s) == [k |-> "inf", n |-> s, d |-> 0]
NaN == [k |-> "nan", n |-> 0, d |-> 0]
Zero == Fin(0, 1)
One == Fin(1, 1)

\* a / b, the divisor being +0 when it is zero
FDiv(a, b) ==
    IF a.k = "nan" \/ b.k = "nan" THEN NaN
    ELSE IF b.k = "inf" THEN (IF a.k = "inf" THEN NaN ELSE Zero)
    ELSE IF b.n = 0 THEN (IF a.n = 0 THEN NaN ELSE Inf(Sign(a.n)))
    ELSE IF a.k = "inf" THEN Inf(a.n * Sign(b.n))
    ELSE Fin(a.n * b.d * Sign(b.n), a.d * Abs(b.n))

FMul(a, b) ==
    IF a.k = "nan" \/ b.k = "nan" THEN NaN
    ELSE IF a.k = "inf" \/ b.k = "inf"
         THEN (IF a.n = 0 \/ b.n = 0 THEN NaN ELSE Inf(Sign(a.n) * Sign(b.n)))
    ELSE Fin(a.n * b.n, a.d * b.d)

FAdd(a, b) ==
    IF a.k = "nan" \/ b.k = "nan" THEN NaN
    ELSE IF a.k = "inf" /\ b.k = "inf" THEN (IF a.n = b.n THEN a ELSE NaN)
    ELSE IF a.k = "inf" THEN a
    ELSE IF b.k = "inf" THEN b
    ELSE Fin(a.n * b.d + b.n * a.d, a.d * b.d)

FSub(a, b) == FAdd(a, FMul(Fin(-1, 1), b))

\* a <= b for finite values
FLeq(a, b) == a.n * b.d <= b.n * a.d

FFloor(a) == IF a.k = "fin" THEN Fin(a.n \div a.d, 1) ELSE a

\* ------------------------------------------------------- DropConnect
PDen == 2
RandDen == 2

\* the probabilities tried, among them values the constructor rejects
PArgs == {Fin(n, PDen) : n \in -1..(PDen + 1)}
\* torch.rand draws from [0, 1)
Rands == {Fin(n, RandDen) : n \in 0..(RandDen - 1)}
ElemVals == {Fin(-1, 1), Zero, One}

\* assert 0 <= p <= 1, 'p must be in range of [0,1]'
DropConnectAccepts(p) == FLeq(Zero, p) /\ FLeq(p, One)

\* self.keep_prob = 1 - p
KeepProb(p) == FSub(One, p)

\* random_tensor = self.keep_prob + torch.rand([batch_size, 1, 1, 1, 1]); .floor_()
BinaryMask(keep_prob, r) == FFloor(FAdd(keep_prob, r))

\* x / self.keep_prob * random_tensor.floor_(), for one element of a sample
\* whose random draw is r
DropConnectElem(keep_prob, x, r) == FMul(FDiv(x, keep_prob), BinaryMask(keep_prob, r))

DropConnectAlwaysDrops(training, keep_prob, x, r) == DropConnectElem(keep_prob, x, r)

\* DropConnect.forward on one element: if not self.training: return x
DropConnectForward(training, keep_prob, x, r) ==
    IF ~training THEN x ELSE DropConnectElem(keep_prob, x, r)

DCIdle == [built |-> FALSE, raised |-> FALSE, p |-> Zero, keep_prob |-> Zero,
           training |-> FALSE, called |-> FALSE, x |-> <<>>, rand |-> <<>>, out |-> <<>>]

\* DropConnect(p): the assertion, then keep_prob; nn.Module starts in training mode
DCConstruct ==
    /\ ~dc.built /\ ~dc.raised
    /\ \E p \in PArgs :
         dc' = IF DropConnectAccepts(p)
               THEN [DCIdle EXCEPT !.built = TRUE, !.p = p, !.keep_prob = KeepProb(p),
                                   !.training = TRUE]
               ELSE [DCIdle EXCEPT !.raised = TRUE, !.p = p]
    /\ UNCHANGED <<conv, mb, net, lab>>

\* module.eval()
DCEval ==
    /\ dc.built /\ ~dc.called /\ dc.training
    /\ dc' = [dc EXCEPT !.training = FALSE]
    /\ UNCHANGED <<conv, mb, net, lab>>

\* module.train()
DCTrain ==
    /\ dc.built /\ ~dc.called /\ ~dc.training
    /\ dc' = [dc EXCEPT !.training = TRUE]
    /\ UNCHANGED <<conv, mb, net, lab>>

\* module(x): x has b samples of two elements each, with one random draw per
\* sample (the random tensor has shape [batch_size, 1, 1, 1, 1]); one call is
\* recorded per module
DCCall ==
    /\ dc.built /\ ~dc.called
    /\ \E b \in 1..MaxBatch :
         \E x \in [1..b -> ElemVals \X ElemVals], rand \in [1..b -> Rands] :
            dc' = [dc EXCEPT !.called = TRUE, !.x = x, !.rand = rand,
                      !.out = [s \in 1..b |-> [e \in DOMAIN x[s] |->
                                 DropConnectForward(dc.training, dc.keep_prob, x[s][e], rand[s])]]]
    /\ UNCHANGED <<conv, mb, net, lab>>

DCNext == DCConstruct \/ DCEval \/ DCTrain \/ DCCall

\* ------------------------------------------------------- MBConvBlock
MaxExpand == 2

\* the value a tensor holds, as the expression that computed it
V(op, args) == [op |-> op, args |-> args]
InputV == V("input", <<>>)

\* DropConnect.forward on a whole tensor: the input itself outside training,
\* the randomly masked and rescaled tensor in training
DropConnectModule(training, v) ==
    IF ~training THEN v ELSE V("drop_connect", <<v>>)

\* se_ratio: None, or the ratio n/d
SeNone == [none |-> TRUE, n |-> 0, d |-> 1]
Se(n, d) == [none |-> FALSE, n |-> n, d |-> d]
SeRatios == {SeNone, Se(1, 4), Se(1, 1), Se(2, 1)}

Max(a, b) == IF a >= b THEN a ELSE b

\* F.adaptive_avg_pool3d(x, 1)
AdaptiveAvgPool3d(x) == IF ~x.ok THEN ErrT ELSE T(x.b, x.ch, <<1, 1, 1>>)

\* the shape of a * b or a + b under broadcasting
Broadcast(a, b) ==
    IF \/ ~a.ok \/ ~b.ok
       \/ ~(a.b = b.b \/ a.b = 1 \/ b.b = 1)
       \/ ~(a.ch = b.ch \/ a.ch = 1 \/ b.ch = 1)
       \/ \E i \in 1..ndim : ~(a.sz[i] = b.sz[i] \/ a.sz[i] = 1 \/ b.sz[i] = 1)
    THEN ErrT
    ELSE T(Max(a.b, b.b), Max(a.ch, b.ch), [i \in 1..ndim |-> Max(a.sz[i], b.sz[i])])

\* MBConvBlock.__init__ (store_attr() keeps the arguments as attributes)
MBConvBlock(n_inp, n_out, kernel_size, stride, se_ratio, id_skip, expand_ratio, drop_connect_rate) ==
    LET n_intermed == n_inp * expand_ratio
        has_se == ~se_ratio.none /\ 0 < se_ratio.n /\ se_ratio.n <= se_ratio.d
        num_squeezed_channels == Max(1, (n_inp * se_ratio.n) \div se_ratio.d)
    IN  [n_inp |-> n_inp, n_out |-> n_out, stride |-> stride, id_skip |-> id_skip,
         expand_ratio |-> expand_ratio,
         expand_conv |-> IF expand_ratio # 1
                         THEN ConvLayerDynamicPadding(n_inp, n_intermed, KsInt(1), 1, 1, TRUE)
                         ELSE NoLayer,
         depthwise_conv |-> ConvLayerDynamicPadding(n_intermed, n_intermed, KsInt(kernel_size),
                                                    stride, n_intermed, TRUE),
         has_se |-> has_se,
         squeeze_expand |-> IF has_se
                            THEN <<ConvLayerDynamicPadding(n_intermed, num_squeezed_channels,
                                                           KsInt(1), 1, 1, FALSE),
                                   ConvLayerDynamicPadding(num_squeezed_channels, n_intermed,
                                                           KsInt(1), 1, 1, FALSE)>>
                            ELSE <<>>,
         project_conv |-> ConvLayerDynamicPadding(n_intermed, n_out, KsInt(1), 1, 1, TRUE),
         keep_prob |-> KeepProb(drop_connect_rate)]

SkipConditionIgnoresIdSkip(blk) == blk.stride = 1 /\ blk.n_inp = blk.n_out

\* if self.id_skip and self.stride == 1 and self.n_inp == self.n_out
SkipCondition(blk) == blk.id_skip /\ blk.stride = 1 /\ blk.n_inp = blk.n_out

\* expansion: if self.expand_ratio != 1: x = self.expand_conv(x)
MBExpand(blk, training, x) ==
    IF blk.expand_ratio # 1 THEN ConvForward(blk.expand_conv, training, x) ELSE x

\* depthwise convolution
MBDepthwise(blk, training, x) == ConvForward(blk.depthwise_conv, training, x)

\* self.squeeze_expand(x_squeezed), an nn.Sequential of two layers
MBSqueezeExpand(blk, training, x_squeezed) ==
    The({ConvForward(blk.squeeze_expand[2], training, s) :
            s \in {ConvForward(blk.squeeze_expand[1], training, x_squeezed)}})

\* squeeze and excitation: x = x * x_squeezed.sigmoid()
MBExcite(blk, training, x) ==
    IF blk.has_se
    THEN The({Broadcast(x, g) : g \in {MBSqueezeExpand(blk, training, AdaptiveAvgPool3d(x))}})
    ELSE x

\* pointwise convolution
MBProject(blk, training, x) == ConvForward(blk.project_conv, training, x)

\* the value x holds when project_conv has run
MBProjectedV(blk) ==
    LET expandedV == IF blk.expand_ratio # 1 THEN V("expand_conv", <<InputV>>) ELSE InputV
        depthwiseV == V("depthwise_conv", <<expandedV>>)
        excitedV == IF blk.has_se THEN V("squeeze_excite", <<depthwiseV>>) ELSE depthwiseV
    IN  V("project_conv", <<excitedV>>)

\* skip connection and drop connect: x = self.drop_conncet(x) + inputs, `inputs`
\* being assigned only if self.id_skip; `unbound` is a read of `inputs` when it
\* was never assigned
MBSkip(blk, training, inputs, projected) ==
    LET inputs_defined == blk.id_skip
        skip == SkipCondition(blk) /\ projected.ok
        unbound == skip /\ ~inputs_defined
        projectedV == MBProjectedV(blk)
        dropped == DropConnectModule(training, projectedV)
    IN  [out |-> IF unbound THEN ErrT
                 ELSE IF skip THEN Broadcast(projected, inputs)
                 ELSE projected,
         val |-> IF skip /\ ~unbound THEN V("add", <<dropped, InputV>>) ELSE projectedV,
         projected |-> projected,
         projectedV |-> projectedV,
         dropped |-> IF skip /\ ~unbound THEN dropped ELSE InputV,
         skip_added |-> skip /\ ~unbound,
         unbound |-> unbound]

\* MBConvBlock.forward: expansion, depthwise convolution, squeeze and excitation,
\* pointwise convolution, skip connection
MBForward(blk, training, x) ==
    The({MBSkip(blk, training, x, projected) :
            projected \in {MBProject(blk, training, excited) :
               excited \in {MBExcite(blk, training, depthwise) :
                  depthwise \in {MBDepthwise(blk, training, expanded) :
                     expanded \in {MBExpand(blk, training, x)}}}}})

NoArgs == [n_inp |-> 0, n_out |-> 0, kernel_size |-> 0, stride |-> 0, se_ratio |-> SeNone,
           id_skip |-> FALSE, expand_ratio |-> 0, drop_connect_rate |-> Zero]
NoRes == [out |-> NoT, val |-> InputV, projected |-> NoT, projectedV |-> InputV,
          dropped |-> InputV, skip_added |-> FALSE, unbound |-> FALSE]
MBIdle == [built |-> FALSE, raised |-> FALSE, args |-> NoArgs, blk |-> <<>>,
           training |-> FALSE, called |-> FALSE, x |-> NoT, res |-> NoRes]

MBBuilt(a) ==
    IF DropConnectAccepts(a.drop_connect_rate)
    THEN [MBIdle EXCEPT !.built = TRUE, !.args = a, !.training = TRUE,
             !.blk = MBConvBlock(a.n_inp, a.n_out, a.kernel_size, a.stride, a.se_ratio,
                                 a.id_skip, a.expand_ratio, a.drop_connect_rate)]
    ELSE [MBIdle EXCEPT !.raised = TRUE, !.args = a]

\* MBConvBlock(n_inp, n_out, kernel_size, stride, se_ratio, id_skip, expand_ratio, drop_connect_rate)
MBConstruct ==
    /\ ~mb.built /\ ~mb.raised
    /\ \E n_inp \in 1..MaxCh, n_out \in 1..MaxCh, kernel_size \in 1..MaxKs,
          stride \in 1..MaxStride, se_ratio \in SeRatios, id_skip \in BOOLEAN,
          expand_ratio \in 1..MaxExpand, p \in PArgs :
         mb' = MBBuilt([n_inp |-> n_inp, n_out |-> n_out, kernel_size |-> kernel_size,
                        stride |-> stride, se_ratio |-> se_ratio, id_skip |-> id_skip,
                        expand_ratio |-> expand_ratio, drop_connect_rate |-> p])
    /\ UNCHANGED <<conv, dc, net, lab>>

\* block.eval()
MBEval ==
    /\ mb.built /\ ~mb.called /\ mb.training
    /\ mb' = [mb EXCEPT !.training = FALSE]
    /\ UNCHANGED <<conv, dc, net, lab>>

\* block.train()
MBTrain ==
    /\ mb.built /\ ~mb.called /\ ~mb.training
    /\ mb' = [mb EXCEPT !.training = TRUE]
    /\ UNCHANGED <<conv, dc, net, lab>>

\* block(x) for an input with the block's n_inp channels; one call is recorded per block
MBCall ==
    /\ mb.built /\ ~mb.called
    /\ \E b \in {1, MaxBatch}, sz \in Sizes :
         LET x == T(b, mb.args.n_inp, sz)
         IN  mb' = [mb EXCEPT !.called = TRUE, !.x = x,
                       !.res = MBForward(mb.blk, mb.training, x)]
    /\ UNCHANGED <<conv, dc, net, lab>>

\* MBConvBlock(80, 112, 4, 1, 0.25, True, 6)(torch.randn(1, 80, 10, 14, 14)).size()
MBTestCell ==
    /\ ~mb.built /\ ~mb.raised
    /\ LET a == [n_inp |-> 80, n_out |-> 112, kernel_size |-> 4, stride |-> 1,
                 se_ratio |-> Se(1, 4), id_skip |-> TRUE, expand_ratio |-> 6,
                 drop_connect_rate |-> Fin(2, 10)]
           m == MBBuilt(a)
           x == T(1, 80, <<10, 14, 14>>)
       IN  mb' = [m EXCEPT !.called = TRUE, !.x = x, !.res = MBForward(m.blk, m.training, x)]
    /\ UNCHANGED <<conv, dc, net, lab>>

MBNext == MBConstruct \/ MBEval \/ MBTrain \/ MBCall \/ MBTestCell

\* ------------------------------------------------------- EfficientNet
MaxNetDim == 3

\* coefficients and rates are kept in tenths: 1.4 is 14, 0.2 is 2
Tenths(n) == Fin(n, 10)

\* EfficientNet.block_arguments, one record per row of the data frame
BlockRow(num_repeat, kernel_size, stride, expand_ratio, in_channels, out_channels) ==
    [num_repeat |-> num_repeat, kernel_size |-> kernel_size, stride |-> stride,
     expand_ratio |-> expand_ratio, in_channels |-> in_channels,
     out_channels |-> out_channels, se_ratio |-> Se(1, 4), id_skip |-> TRUE]

block_arguments ==
    << BlockRow(1, 3, 1, 1, 32, 16),
       BlockRow(2, 3, 2, 6, 16, 24),
       BlockRow(2, 4, 2, 6, 24, 40),
       BlockRow(3, 3, 2, 6, 40, 80),
       BlockRow(3, 4, 1, 6, 80, 112),
       BlockRow(4, 4, 2, 6, 112, 192),
       BlockRow(1, 3, 1, 6, 192, 320) >>

\* depth_divisor=8 and drop_connect_rate=0.2, the defaults of EfficientNet.__init__
depth_divisor == 8
drop_connect_rate == Fin(2, 10)

\* EfficientNet.get_n_channels with min_depth=None; a width_coefficient of 0
\* reaches `return filters`, an undefined name: 0 stands for the NameError
get_n_channels(n_channels, width_coefficient) ==
    IF width_coefficient = 0 THEN 0
    ELSE LET scaled10 == n_channels * width_coefficient
             min_depth == depth_divisor
             rounded == (((2 * scaled10 + 10 * depth_divisor) \div 20) \div depth_divisor)
                            * depth_divisor
             new_channels == Max(min_depth, rounded)
         IN  IF new_channels * 100 < 9 * scaled10
             THEN new_channels + depth_divisor
             ELSE new_channels

\* if depth_coefficient: num_repeat = int(math.ceil(depth_coefficient * num_repeat))
NumRepeat(depth_coefficient, num_repeat) ==
    IF depth_coefficient # 0 THEN CeilDiv(depth_coefficient * num_repeat, 10)
    ELSE num_repeat

StageBlockStrideKept(j, stride) == stride

\* ni, stride = nf, 1: only the first block of a stage keeps the stage's stride
StageBlockStride(j, stride) == IF j = 1 THEN stride ELSE 1

\* the nn.Sequential of MBConvBlocks built for row idx (0-based) of block_arguments
Stage(idx, width_coefficient, depth_coefficient) ==
    LET row == block_arguments[idx + 1]
        ni == get_n_channels(row.in_channels, width_coefficient)
        nf == get_n_channels(row.out_channels, width_coefficient)
        num_repeat == NumRepeat(depth_coefficient, row.num_repeat)
    IN  [j \in 1..num_repeat |->
            MBConvBlock(IF j = 1 THEN ni ELSE nf, nf, row.kernel_size,
                        StageBlockStride(j, row.stride), row.se_ratio, row.id_skip,
                        row.expand_ratio,
                        FMul(drop_connect_rate, Fin(idx, Len(block_arguments))))]

\* EfficientNet.__init__: stem, the seven stages, the last ConvLayer, the head
EfficientNet(ni, num_classes, width_coefficient, depth_coefficient, dropout_rate) ==
    LET nf_stem == get_n_channels(32, width_coefficient)
        body_nf == get_n_channels(block_arguments[Len(block_arguments)].out_channels,
                                  width_coefficient)
        nf == get_n_channels(body_nf, width_coefficient)
    IN  [stem |-> ConvLayerDynamicPadding(ni, nf_stem, KsInt(3), 2, 1, TRUE),
         stages |-> [s \in 1..Len(block_arguments) |->
                        Stage(s - 1, width_coefficient, depth_coefficient)],
         last |-> ConvLayerDynamicPadding(body_nf, nf, KsInt(1), 1, 1, TRUE),
         head |-> [dropout |-> Tenths(dropout_rate), in_features |-> nf,
                   out_features |-> num_classes]]

RECURSIVE BlocksForward(_, _, _, _)
\* nn.Sequential.forward over the blocks of one stage, from block i on
BlocksForward(blocks, training, x, i) ==
    IF i > Len(blocks) THEN x
    ELSE The({BlocksForward(blocks, training, y, i + 1) :
                 y \in {MBForward(blocks[i], training, x).out}})

RECURSIVE StagesForward(_, _, _, _)
\* the shapes after each stage from stage s on, x being the input of stage s
StagesForward(stages, training, x, s) ==
    IF s > Len(stages) THEN <<>>
    ELSE The({<<y>> \o StagesForward(stages, training, y, s + 1) :
                 y \in {BlocksForward(blocks, training, x, 1) : blocks \in {stages[s]}}})

NoLogits == [ok |-> FALSE, b |-> 0, n |-> 0]

\* the head: AdaptiveAvgPool3d(1), Flatten, Dropout, Linear(nf, num_classes)
HeadForward(head, x) ==
    LET pooled == AdaptiveAvgPool3d(x)
        features == pooled.ch * pooled.sz[1] * pooled.sz[2] * pooled.sz[3]
    IN  IF ~pooled.ok \/ features # head.in_features THEN NoLogits
        ELSE [ok |-> TRUE, b |-> pooled.b, n |-> head.out_features]

\* EfficientNet.forward (nn.Sequential): `trace` holds the shape after the stem,
\* after each stage and after the last ConvLayer
EfficientNetForward(model, training, x) ==
    The({The({The({[trace |-> <<stem>> \o body \o <<last>>,
                    out |-> HeadForward(model.head, last)] :
                      last \in {ConvForward(model.last, training, body[Len(body)])}}) :
                 body \in {StagesForward(model.stages, training, stem, 1)}}) :
            stem \in {ConvForward(model.stem, training, x)}})

\* _model_urls: the architectures with pretrained weights
model_urls == {"efficientnet_b0", "efficientnet_b1", "efficientnet_b3"}

\* _efficientnet(arch, width_coefficient, depth_coefficient, dropout_rate, pretrained, progress, **kwargs)
efficientnet(arch, width_coefficient, depth_coefficient, dropout_rate, pretrained, kw) ==
    [arch |-> arch, ni |-> kw.ni, num_classes |-> kw.num_classes,
     width_coefficient |-> width_coefficient, depth_coefficient |-> depth_coefficient,
     dropout_rate |-> dropout_rate,
     weights |-> IF ~pretrained THEN "random"
                 ELSE IF arch \in model_urls THEN "pretrained" ELSE "KeyError"]

efficientnet_b0(pretrained, kw) == efficientnet("efficientnet_b0", 10, 10, 2, pretrained, kw)
efficientnet_b1(pretrained, kw) == efficientnet("efficientnet_b1", 10, 11, 2, pretrained, kw)
efficientnet_b2(pretrained, kw) == efficientnet("efficientnet_b2", 11, 12, 3, FALSE, kw)
efficientnet_b3(pretrained, kw) == efficientnet("efficientnet_b3", 12, 14, 3, pretrained, kw)
efficientnet_b4(pretrained, kw) == efficientnet("efficientnet_b4", 14, 22, 4, FALSE, kw)
efficientnet_b5(pretrained, kw) == efficientnet("efficientnet_b5", 16, 22, 4, FALSE, kw)
efficientnet_b6(pretrained, kw) == efficientnet("efficientnet_b6", 18, 26, 5, FALSE, kw)
efficientnet_b7(pretrained, kw) == efficientnet("efficientnet_b7", 20, 31, 5, FALSE, kw)
efficientnet_b8(pretrained, kw) == efficientnet("efficientnet_b8", 22, 36, 5, FALSE, kw)
efficientnet_l2(pretrained, kw) == efficientnet("efficientnet_l2", 43, 53, 5, FALSE, kw)

Factories(pretrained, kw) ==
    { efficientnet_b0(pretrained, kw), efficientnet_b1(pretrained, kw),
      efficientnet_b2(pretrained, kw), efficientnet_b3(pretrained, kw),
      efficientnet_b4(pretrained, kw), efficientnet_b5(pretrained, kw),
      efficientnet_b6(pretrained, kw), efficientnet_b7(pretrained, kw),
      efficientnet_b8(pretrained, kw), efficientnet_l2(pretrained, kw) }

\* the documented overview of building arguments: width_coeff, depth_coeff, dropout
TableRow(w, d, p) == [width_coeff |-> w, depth_coeff |-> d, dropout |-> p]
BuildingArguments ==
    [a \in {"efficientnet_b0", "efficientnet_b1", "efficientnet_b2", "efficientnet_b3",
            "efficientnet_b4", "efficientnet_b5", "efficientnet_b6", "efficientnet_b7",
            "efficientnet_b8", "efficientnet_l2"} |->
        CASE a = "efficientnet_b0" -> TableRow(10, 10, 2)
          [] a = "efficientnet_b1" -> TableRow(10, 11, 2)
          [] a = "efficientnet_b2" -> TableRow(11, 12, 3)
          [] a = "efficientnet_b3" -> TableRow(12, 14, 3)
          [] a = "efficientnet_b4" -> TableRow(14, 18, 4)
          [] a = "efficientnet_b5" -> TableRow(16, 22, 4)
          [] a = "efficientnet_b6" -> TableRow(18, 26, 5)
          [] a = "efficientnet_b7" -> TableRow(20, 31, 5)
          [] a = "efficientnet_b8" -> TableRow(22, 36, 5)
          [] a = "efficientnet_l2" -> TableRow(43, 53, 5)]

NetIdle == [built |-> FALSE, raised |-> FALSE,
            args |-> [arch |-> "", ni |-> 0, num_classes |-> 0, width_coefficient |-> 0,
                      depth_coefficient |-> 0, dropout_rate |-> 0, weights |-> ""],
            head_dropout |-> Zero, training |-> FALSE, called |-> FALSE, x |-> NoT,
            trace |-> <<>>, out |-> NoLogits]

\* the layers of a built model; they are a function of the arguments it was built
\* with, which is what the state keeps
Model(a) == EfficientNet(a.ni, a.num_classes, a.width_coefficient, a.depth_coefficient,
                         a.dropout_rate)

\* the keyword arguments a caller passes on: ni=3 (the default) and num_classes,
\* 101 by default and 2 in the documented calls
Kwargs == [ni : {3}, num_classes : {2, 101}]

\* the EfficientNet the arguments build; a width_coefficient of 0 raises
NetBuilt(a) ==
    IF a.width_coefficient = 0 THEN [NetIdle EXCEPT !.raised = TRUE, !.args = a]
    ELSE [NetIdle EXCEPT !.built = TRUE, !.args = a, !.training = TRUE,
                         !.head_dropout = Model(a).head.dropout]

\* EfficientNet(ni, num_classes, width_coefficient, depth_coefficient) called directly
NetConstruct ==
    /\ ~net.built /\ ~net.raised
    /\ \E kw \in Kwargs, w \in {0, 10}, d \in {0, 10} :
         net' = NetBuilt([arch |-> "EfficientNet", ni |-> kw.ni, num_classes |-> kw.num_classes,
                          width_coefficient |-> w, depth_coefficient |-> d,
                          dropout_rate |-> 2, weights |-> "random"])
    /\ UNCHANGED <<conv, dc, mb, lab>>

\* efficientnet_b0(...) .. efficientnet_l2(...)
NetFactory ==
    /\ ~net.built /\ ~net.raised
    /\ \E kw \in Kwargs, pretrained \in BOOLEAN :
         \E a \in Factories(pretrained, kw) : net' = NetBuilt(a)
    /\ UNCHANGED <<conv, dc, mb, lab>>

\* model.eval()
NetEval ==
    /\ net.built /\ ~net.called /\ net.training
    /\ net' = [net EXCEPT !.training = FALSE]
    /\ UNCHANGED <<conv, dc, mb, lab>>

NetCalled(m, model, x) ==
    The({[m EXCEPT !.called = TRUE, !.x = x, !.trace = r.trace, !.out = r.out] :
            r \in {EfficientNetForward(model, m.training, x)}})

\* model(x) for an input with the model's ni channels; one call is recorded per model
NetCall ==
    /\ net.built /\ ~net.called
    /\ \E model \in {Model(net.args)} :
         \E b \in {1, MaxBatch}, sz \in [1..ndim -> 1..MaxNetDim] :
            \E x \in {T(b, net.args.ni, sz)} : net' = NetCalled(net, model, x)
    /\ UNCHANGED <<conv, dc, mb, lab>>

\* EfficientNet(num_classes = 2)(torch.randn(1, 3, 10, 224, 224))
NetTestCellClass ==
    /\ ~net.built /\ ~net.raised
    /\ \E m \in {NetBuilt([arch |-> "EfficientNet", ni |-> 3, num_classes |-> 2,
                              width_coefficient |-> 10, depth_coefficient |-> 10,
                              dropout_rate |-> 2, weights |-> "random"])} :
         \E x \in {T(1, 3, <<10, 224, 224>>)} : net' = NetCalled(m, Model(m.args), x)
    /\ UNCHANGED <<conv, dc, mb, lab>>

\* efficientnet_b0(num_classes = 2)(torch.randn(1, 3, 10, 224, 224))
NetTestCellFactory ==
    /\ ~net.built /\ ~net.raised
    /\ \E m \in {NetBuilt(efficientnet_b0(FALSE, [ni |-> 3, num_classes |-> 2]))} :
         \E x \in {T(1, 3, <<10, 224, 224>>)} : net' = NetCalled(m, Model(m.args), x)
    /\ UNCHANGED <<conv, dc, mb, lab>>

NetNext == NetConstruct \/ NetFactory \/ NetEval \/ NetCall \/ NetTestCellClass
              \/ NetTestCellFactory

\* ----------------------------------------------------- DynamicDeepLab
MaxLayers == 4
MaxImg == 4
MaxForwards == 2

\* an encoder is a sequence of modules, each with a stride and an output width
LayerKinds == [stride : {1, 2}, nf : {8, 16}]
Encoders == UNION {[1..n -> LayerKinds] : n \in 2..MaxLayers}
ImgSizes == [1..ndim -> {1, MaxImg}]

\* a feature map: the input it was computed from (src; 0 is none), its channels
\* and its spatial size
Feat(src, ch, sz) == [src |-> src, ch |-> ch, sz |-> sz]
NoFeat == Feat(0, 0, <<>>)

\* the inputs of the two dummy passes of the constructor; forward call k has input 2 + k
ModelSizesInput == 1
DummyEvalInput == 2

LayerForward(layer, x) ==
    Feat(x.src, layer.nf, [i \in 1..ndim |-> CeilDiv(x.sz[i], layer.stride)])

RECURSIVE EncoderRun(_, _, _)
\* the outputs of the encoder's modules from module i on, x being module i's input
EncoderRun(enc, x, i) ==
    IF i > Len(enc) THEN <<>>
    ELSE The({<<y>> \o EncoderRun(enc, y, i + 1) : y \in {LayerForward(enc[i], x)}})

\* encoder(x): the output of every module, the last being the encoder's output
EncoderForward(enc, src, img_size) == EncoderRun(enc, Feat(src, 3, img_size), 1)

RECURSIVE SortedSeq(_)
SortedSeq(S) ==
    IF S = {} THEN <<>>
    ELSE LET m == CHOOSE a \in S : \A b \in S : a <= b
         IN  <<m>> \o SortedSeq(S \ {m})

\* _get_sz_change_idxs(sizes): the modules whose output's last extent differs from
\* the next module's
get_sz_change_idxs(sizes) ==
    SortedSeq({i \in 1..(Len(sizes) - 1) : sizes[i].sz[ndim] # sizes[i + 1].sz[ndim]})

HookIndexFirst(sz_chg_idxs) == sz_chg_idxs[1]

\* hook_outputs(encoder[sz_chg_idxs[1]], detach=False): Python's [1] is the second entry
HookIndex(sz_chg_idxs) == sz_chg_idxs[2]

\* low_lvl_ni=sizes[sz_chg_idxs[1]][1]
LowLvlIndex(sz_chg_idxs) == sz_chg_idxs[2]

NoRead == [low |-> NoFeat, x_src |-> 0, ok |-> FALSE]

\* DeepLabDecoder.forward: s = self.low_lvl_conv(sum(self.hook.stored)), which
\* raises when nothing is stored or the channels are not low_lvl_ni
DecoderRead(stored, low_lvl_ni, x) ==
    [low |-> stored, x_src |-> x.src, ok |-> stored.src # 0 /\ stored.ch = low_lvl_ni]

LabIdle == [pc |-> "none", encoder |-> <<>>, img_size |-> <<>>, sizes |-> <<>>,
            sz_chg_idxs |-> <<>>, hooked |-> FALSE, hook_idx |-> 0, stored |-> NoFeat,
            x |-> NoFeat, enc_evals |-> 0, unhooked_evals |-> 0, aspp_ni |-> 0,
            low_lvl_ni |-> 0, reads |-> 0, read |-> NoRead, forwards |-> 0]

\* one evaluation of the encoder on input src: the hook, when registered, stores
\* the output of its module
EncoderEvaluated(l, src) ==
    LET outs == EncoderForward(l.encoder, src, l.img_size)
    IN  [l EXCEPT !.x = outs[Len(outs)],
                  !.stored = IF l.hooked THEN outs[l.hook_idx] ELSE l.stored,
                  !.enc_evals = l.enc_evals + 1,
                  !.unhooked_evals = IF l.hooked THEN l.unhooked_evals
                                     ELSE l.unhooked_evals + 1]

\* DynamicDeepLab(encoder, n_out, img_size): __init__ is entered
LabNew ==
    /\ lab.pc = "none"
    /\ \E encoder \in Encoders, img_size \in ImgSizes :
         lab' = [LabIdle EXCEPT !.pc = "new", !.encoder = encoder, !.img_size = img_size]
    /\ UNCHANGED <<conv, dc, mb, net>>

\* sizes = model_sizes(encoder, size=img_size); sz_chg_idxs = list(_get_sz_change_idxs(sizes)):
\* model_sizes passes a dummy input through the encoder under hooks of its own,
\* which it removes again
LabModelSizes ==
    /\ lab.pc = "new"
    /\ \E outs \in {EncoderForward(lab.encoder, ModelSizesInput, lab.img_size)} :
         lab' = [lab EXCEPT !.pc = "sized", !.sizes = outs,
                            !.sz_chg_idxs = get_sz_change_idxs(outs),
                            !.enc_evals = lab.enc_evals + 1,
                            !.unhooked_evals = lab.unhooked_evals + 1]
    /\ UNCHANGED <<conv, dc, mb, net>>

\* self.sfs = hook_outputs(encoder[sz_chg_idxs[1]], detach=False); an encoder
\* with fewer than two size changes raises IndexError
LabHookOutputs ==
    /\ lab.pc = "sized"
    /\ lab' = IF Len(lab.sz_chg_idxs) < 2 THEN [lab EXCEPT !.pc = "raised"]
              ELSE [lab EXCEPT !.pc = "hooked", !.hooked = TRUE,
                               !.hook_idx = HookIndex(lab.sz_chg_idxs)]
    /\ UNCHANGED <<conv, dc, mb, net>>

\* x = dummy_eval(encoder, img_size).detach()
LabDummyEval ==
    /\ lab.pc = "hooked"
    /\ lab' = [EncoderEvaluated(lab, DummyEvalInput) EXCEPT !.pc = "evaluated"]
    /\ UNCHANGED <<conv, dc, mb, net>>

\* ni = sizes[-1][1]; aspp = ASPP(ni=ni, nf=ni//4, ...).eval(); x = aspp(x)
LabASPP ==
    /\ lab.pc = "evaluated"
    /\ \E ni \in {lab.sizes[Len(lab.sizes)].ch} :
         lab' = [lab EXCEPT !.pc = "aspp", !.aspp_ni = ni,
                            !.x = Feat(lab.x.src, ni \div 4, lab.x.sz)]
    /\ UNCHANGED <<conv, dc, mb, net>>

\* decoder = DeepLabDecoder(ni=nf, low_lvl_ni=sizes[sz_chg_idxs[1]][1], hook=self.sfs, ...);
\* x = decoder(x); self.layers = nn.ModuleList([encoder, aspp, decoder, ResizeToOrig()])
LabDecoder ==
    /\ lab.pc = "aspp"
    /\ \E low_lvl_ni \in {lab.sizes[LowLvlIndex(lab.sz_chg_idxs)].ch} :
         lab' = [lab EXCEPT !.pc = "ready", !.low_lvl_ni = low_lvl_ni,
                            !.reads = lab.reads + 1,
                            !.read = DecoderRead(lab.stored, low_lvl_ni, lab.x)]
    /\ UNCHANGED <<conv, dc, mb, net>>

\* model(x), SequentialEx.forward, first layer: the encoder runs on the new input
LabForwardEncoder ==
    /\ lab.pc = "ready"
    /\ lab.forwards < MaxForwards
    /\ lab' = [EncoderEvaluated(lab, DummyEvalInput + lab.forwards + 1) EXCEPT
                  !.pc = "f_encoder", !.forwards = lab.forwards + 1]
    /\ UNCHANGED <<conv, dc, mb, net>>

\* second layer: aspp
LabForwardASPP ==
    /\ lab.pc = "f_encoder"
    /\ lab' = [lab EXCEPT !.pc = "f_aspp",
                          !.x = Feat(lab.x.src, lab.aspp_ni \div 4, lab.x.sz)]
    /\ UNCHANGED <<conv, dc, mb, net>>

\* third layer: the decoder reads hook.stored
LabForwardDecoder ==
    /\ lab.pc = "f_aspp"
    /\ lab' = [lab EXCEPT !.pc = "f_decoder", !.reads = lab.reads + 1,
                          !.read = DecoderRead(lab.stored, lab.low_lvl_ni, lab.x)]
    /\ UNCHANGED <<conv, dc, mb, net>>

\* fourth layer: ResizeToOrig; the call returns
LabForwardResize ==
    /\ lab.pc = "f_decoder"
    /\ lab' = [lab EXCEPT !.pc = "ready"]
    /\ UNCHANGED <<conv, dc, mb, net>>

\* __del__: if hasattr(self, "sfs"): self.sfs.remove()
LabDel ==
    /\ lab.pc \in {"ready", "raised"}
    /\ lab' = [lab EXCEPT !.pc = "deleted", !.hooked = FALSE]
    /\ UNCHANGED <<conv, dc, mb, net>>

LabNext == LabNew \/ LabModelSizes \/ LabHookOutputs \/ LabDummyEval \/ LabASPP
              \/ LabDecoder \/ LabForwardEncoder \/ LabForwardASPP \/ LabForwardDecoder
              \/ LabForwardResize \/ LabDel

\* ------------------------------------------------------ specifications
Init == /\ conv = ConvIdle
        /\ dc = DCIdle
        /\ mb = MBIdle
        /\ net = NetIdle
        /\ lab = LabIdle

\* a ConvLayerDynamicPadding is built and called
SpecConv == Init /\ [][ConvNext]_vars
\* a DropConnect module is built and called
SpecDC == Init /\ [][DCNext]_vars
\* an MBConvBlock is built and called
SpecMB == Init /\ [][MBNext]_vars
\* either a DropConnect module or an MBConvBlock is built and called
SpecDrop == Init /\ [][(mb = MBIdle /\ DCNext) \/ (dc = DCIdle /\ MBNext)]_vars
\* an EfficientNet is built, directly or by a factory, and called
SpecNet == Init /\ [][NetNext]_vars
\* a DynamicDeepLab is constructed, called and deleted
SpecLab == Init /\ [][LabNext]_vars

C5_DropOrScale ==
    (dc.called /\ dc.training) =>
        \A s \in DOMAIN dc.out :
            \/ \A e \in DOMAIN dc.out[s] : dc.out[s][e] = Zero
            \/ \A e \in DOMAIN dc.out[s] :
                   /\ dc.out[s][e].k = "fin"
                   /\ FMul(dc.out[s][e], dc.keep_prob) = dc.x[s][e]

\* the output shape C4 states for the recorded call
C4_Expected ==
    T(mb.x.b, mb.args.n_out, [i \in 1..ndim |-> CeilDiv(mb.x.sz[i], mb.args.stride)])

C6_EvalNoDrop ==
    /\ (dc.called /\ ~dc.training) => dc.out = dc.x
    /\ (mb.called /\ ~mb.training /\ mb.res.skip_added) =>
          /\ mb.res.dropped = mb.res.projectedV
          /\ mb.res.val = V("add", <<mb.res.projectedV, InputV>>)

\* an evaluation-mode call of a block with p = 1 whose skip connection was added
C6_Witness ==
    /\ mb.called
    /\ ~mb.training
    /\ mb.args.drop_connect_rate = One
    /\ mb.res.skip_added
    /\ mb.res.val = V("add", <<mb.res.projectedV, InputV>>)

\* C7: forward adds the skip connection iff id_skip is true, stride == 1 and
\* n_inp == n_out (the test is reached whenever project_conv returns); when
\* added, the projected tensor and the saved input have identical shapes; the
\* saved input is defined wherever it is read.
C7_SkipIff ==
    mb.called =>
        /\ mb.res.projected.ok =>
              (mb.res.skip_added <=>
                  (mb.args.id_skip /\ mb.args.stride = 1 /\ mb.args.n_inp = mb.args.n_out))
        /\ mb.res.skip_added => (mb.res.projected = mb.x /\ mb.res.out = mb.x)
        /\ ~mb.res.unbound

\* a call that added the skip connection to a projected tensor of the input's shape
C7_Witness ==
    /\ mb.called
    /\ mb.res.skip_added
    /\ mb.args.id_skip
    /\ mb.res.projected = mb.x

\* C2: each factory efficientnet_b0 .. efficientnet_b8 and efficientnet_l2 builds
\* EfficientNet with exactly the width_coeff, depth_coeff and dropout the
\* documented table lists for that model name.
C2_FactoriesMatchTable ==
    (net.built /\ net.args.arch \in DOMAIN BuildingArguments) =>
        /\ net.args.width_coefficient = BuildingArguments[net.args.arch].width_coeff
        /\ net.args.depth_coefficient = BuildingArguments[net.args.arch].depth_coeff
        /\ net.head_dropout = Tenths(BuildingArguments[net.args.arch].dropout)

\* cumulative stride after the stem, the seven stages and the last ConvLayer
C3_Divisors == <<2, 2, 4, 8, 16, 16, 32, 32, 32>>

\* the shapes C3 states for the recorded call
C3_ShapesAsStated ==
    /\ net.out = [ok |-> TRUE, b |-> net.x.b, n |-> net.args.num_classes]
    /\ Len(net.trace) = Len(C3_Divisors)
    /\ \A j \in 1..Len(net.trace) :
          /\ net.trace[j].ok
          /\ \A i \in 1..ndim :
                /\ net.trace[j].sz[i] = CeilDiv(net.x.sz[i], C3_Divisors[j])
                /\ net.trace[j].sz[i] >= 1

\* C3 as stated: for every input (B, ni, D, H, W) with D, H, W >= 1,
\* EfficientNet(num_classes=C) outputs shape (B, C): each strided layer maps an
\* extent n to ceil(n/stride) >= 1, so no spatial dimension reaches 0 through
\* the stem and the seven stages, and the head pools to 1x1x1 and maps to C logits.
C3_LogitsShape == net.called => C3_ShapesAsStated

\* the values per channel left after the last stride: B * ceil(D/32) * ceil(H/32) * ceil(W/32)
C3_ValuesPerChannel ==
    net.x.b * Volume([i \in 1..ndim |-> CeilDiv(net.x.sz[i], C3_Divisors[Len(C3_Divisors)])])

\* C3 amended: the shapes are as stated, and the output is (B, C), in evaluation
\* mode for every input, and in training mode for every input that leaves
\* BatchNorm more than one value per channel; a training-mode call that leaves a
\* single value raises and has no output.
C3_LogitsShapeUnlessSingleValue ==
    net.called =>
        IF net.training /\ C3_ValuesPerChannel = 1
        THEN ~net.out.ok
        ELSE C3_ShapesAsStated

\* the documented call: 10x224x224 with two classes ends at 1x7x7 and (1, 2)
C3_Witness ==
    /\ net.called
    /\ net.x = T(1, 3, <<10, 224, 224>>)
    /\ net.trace[9].sz = <<1, 7, 7>>
    /\ net.out = [ok |-> TRUE, b |-> 1, n |-> 2]

\* every decoder read finds a stored feature, computed from the input its ASPP
\* feature came from, with the low_lvl_ni channels read at the hooked index
C8_FreshFeatures ==
    /\ lab.reads > 0 =>
          /\ lab.read.low.src # 0
          /\ lab.read.low.src = lab.read.x_src
          /\ lab.read.low.ch = lab.low_lvl_ni
          /\ lab.read.ok
    /\ lab.pc \in {"evaluated", "aspp", "f_encoder", "f_aspp"} =>
          (lab.hooked /\ lab.stored.src = lab.x.src)
    /\ lab.low_lvl_ni # 0 => lab.low_lvl_ni = lab.sizes[lab.hook_idx].ch

\* C8 as stated: the hook is registered before the encoder is first evaluated,
\* every decoder read finds the feature of the input its ASPP feature came
\* from, and low_lvl_ni is read at the hooked index.
C8_HookBeforeFirstEvaluation ==
    /\ lab.enc_evals > 0 => lab.unhooked_evals = 0
    /\ C8_FreshFeatures

\* C8 amended: model_sizes evaluates the encoder once before the hook exists;
\* the hook is registered before every evaluation whose output the decoder
\* consumes (the constructor's dummy_eval and every forward pass), so each
\* decoder read finds the feature of the same input as its ASPP feature, and
\* low_lvl_ni is read at the hooked index.
C8_HookBeforeConsumedEvaluations ==
    /\ lab.unhooked_evals = (IF lab.pc \in {"none", "new"} THEN 0 ELSE 1)
    /\ C8_FreshFeatures

\* a second forward call has reached the decoder, which read the feature of that call
C8_Witness ==
    /\ lab.pc = "f_decoder"
    /\ lab.forwards = 2
    /\ lab.reads = 3
    /\ lab.read.low.src = DummyEvalInput + 2
    /\ lab.read.x_src = DummyEvalInput + 2
    /\ lab.read.ok

====
